---------------------------- MODULE Spec2Model ----------------------------
(***************************************************************************)
(* A model of kudu's in-memory Env (src/src/util/memenv/memenv.cc):        *)
(*   - FileState: block-list storage, Read / AppendRaw / PreAllocate,      *)
(*     and the lock-guarded reference count (Ref / Unref);                 *)
(*   - the three file views (Sequential, RandomAccess, Writable);          *)
(*   - InMemoryEnv: the path -> FileState* map and its operations.         *)
(*                                                                         *)
(* Eight specifications share the module's variables:                     *)
(*   SpecFile  one FileState under a writable and a random-access view     *)
(*             (content level: blocks, size);                              *)
(*   SpecWrite one FileState under its writable view alone, with           *)
(*             AppendVector;                                               *)
(*   SpecSeq   one FileState under a writable and a sequential view        *)
(*             (content level: blocks, size, cursor);                      *)
(*   Spec      the namespace with whole operations as atomic steps         *)
(*             (every operation holds mutex_ from entry to return);        *)
(*   SpecNs    the same namespace over more path names and fewer views;    *)
(*   SpecLs    files created and deleted under two directories, listed by  *)
(*             GetChildren;                                                *)
(*   SpecConc  threads interleaving at the granularity of the individual   *)
(*             accesses to mutex_, refs_mutex_, refs_ and file_map_;       *)
(*   SpecLock  the same threads, fairly scheduled, which also read,        *)
(*             append and preallocate through their views.                 *)
(* Offsets are 0-based as in the code; TLA+ sequences are 1-based, so      *)
(* byte offset o of a block is element o + 1 of the block's sequence.      *)
(***************************************************************************)
EXTENDS Integers, Sequences, FiniteSets, Bags, TLC

\* ------------------------------------------------------------------ bounds

\* enum { kBlockSize = 8 * 1024 } (memenv.cc:165), scaled down so that a few
\* bytes span several blocks.
kBlockSize == 2

\* Largest size_ a file of SpecFile grows to (appended plus padding bytes).
MaxSize == 5

\* Most blocks a file of SpecFile holds (PreAllocate pushes blocks without
\* growing size_, so size_ alone does not bound them).
MaxBlocks == 3

\* Longest byte string of one append and largest size of a preallocate.
MaxLen == 2

\* Most Slices in one AppendVector.
MaxVec == 2

\* Largest n of a read or skip.
MaxRead == 4

\* Most FileState objects alive at once in Spec, and most views open at once.
MaxFiles == 2
MaxViews == 2

\* Largest size_ of a file in Spec.
MaxEnvSize == 1

\* Most FileState objects alive at once in SpecNs, and most views open at once.
MaxNsFiles == 5
MaxNsViews == 1

\* SpecConc: the threads, the FileStates allocated in a run, and the views
\* open at once.
NumThreads == 2
MaxConcFiles == 2
MaxConcViews == 2

\* SpecLock: the FileStates allocated in a run, the views open at once, and
\* most blocks a file has when a PreAllocate starts.
MaxLockFiles == 1
MaxLockViews == 1
MaxLockBlocks == 1

\* uint8_t values (as strings, so that they compare with Indet); two are
\* enough to tell any two positions apart.
Byte == {"x", "y"}

\* A byte whose value the program never set: new uint8_t[kBlockSize] leaves
\* the block uninitialized, and PreAllocate copies its padding from wherever
\* the clobbered pointer points.  Reading such a byte yields any Byte.
Indet == "?"

Min(a, b) == IF a < b THEN a ELSE b

\* All sequences over S of length <= n.
SeqUpTo(S, n) == UNION {[1..k -> S] : k \in 0..n}

VARIABLES
    \* ---- SpecFile: one FileState and the views bound to it
    fs,            \* the FileState: [blocks, size] (memenv.cc:162-163)
    pos,           \* SequentialFileImpl::pos_ (memenv.cc:200)
    res,           \* outcome of the last call: op, arguments, Status, Slice
    crashed,       \* the process died in PreAllocate's delete [] padding
    written,       \* history: the bytes appended so far, in append order
    preallocated,  \* history: PreAllocate has been called on fs
    \* ---- Spec, SpecConc: the namespace, the heap of FileStates, the views
    file_map,      \* InMemoryEnv::file_map_ (memenv.cc:436): path -> FileState*
    files,         \* the heap: address -> FileState object (or none there)
    views,         \* the view objects the callers hold, as a bag of views
    ub,            \* a destroyed FileState was used: behaviour is undefined
    last,          \* the last completed call: op, arguments, results
    leaked,        \* history: FileStates whose map entry was erased with no Unref
    \* ---- SpecConc: threads inside the calls
    mutex_,        \* InMemoryEnv::mutex_ (memenv.cc:435): the thread holding it
    refs_mutex_,   \* FileState::refs_mutex_ (memenv.cc:156), one per address
    pc,            \* where each thread is in its call
    local,         \* each thread's call, arguments and local variables
    allocated,     \* how many FileStates operator new has returned so far
    serial         \* history: the map if every call ran alone when it locked

fileVars == <<fs, pos, res, crashed, written, preallocated>>
envVars == <<file_map, files, views, ub, last, leaked>>
concVars == <<mutex_, refs_mutex_, pc, local, allocated, serial>>
vars == <<fileVars, envVars, concVars>>

\* What a step of each specification leaves alone.
FileFrame == UNCHANGED <<envVars, concVars>>
EnvFrame == UNCHANGED <<fileVars, concVars>>
ConcFrame == UNCHANGED <<fileVars, last, leaked>>

\* ---------------------------------------------------------------- FileState

\* new uint8_t[kBlockSize] (memenv.cc:127): a block of unset bytes.
NewBlock == [i \in 1..kBlockSize |-> Indet]

\* FileState() : refs_(0), size_(0) {} with an empty blocks_ (memenv.cc:33).
EmptyContent == [blocks |-> <<>>, size |-> 0]

\* FileState::Size (memenv.cc:59).
Size(f) == f.size

\* A memcpy that drops the offset into the last block.
CopyIntoBack_AtStart(blocks, offset, src, avail) ==
    [blocks EXCEPT ![Len(blocks)] =
        [i \in 1..kBlockSize |-> IF i <= avail THEN src[i] ELSE @[i]]]

\* memcpy(blocks_.back() + offset, src, avail) (memenv.cc:134): the last
\* block with src[1..avail] stored at byte offsets offset .. offset+avail-1.
CopyIntoBack(blocks, offset, src, avail) ==
    [blocks EXCEPT ![Len(blocks)] =
        [i \in 1..kBlockSize |->
            IF i > offset /\ i <= offset + avail THEN src[i - offset] ELSE @[i]]]

\* FileState::AppendRaw (memenv.cc:117-141): one iteration of the while loop
\* per unfolding.
RECURSIVE AppendRaw(_, _)
AppendRaw(f, src) ==
    IF Len(src) = 0
    THEN f
    ELSE LET offset == f.size % kBlockSize
             blocks1 == IF offset # 0
                        THEN f.blocks
                        ELSE Append(f.blocks, NewBlock)
             room    == IF offset # 0 THEN kBlockSize - offset ELSE kBlockSize
             avail   == IF room > Len(src) THEN Len(src) ELSE room
         IN  AppendRaw([f EXCEPT !.blocks = CopyIntoBack(blocks1, offset, src, avail),
                                 !.size   = f.size + avail],
                       SubSeq(src, avail + 1, Len(src)))

\* FileState::Append (memenv.cc:113-115).
FileState_Append(f, data) == AppendRaw(f, data)

\* A PreAllocate that forgets size_ -= size.
PreAllocate_KeepSize(f, size) == AppendRaw(f, [i \in 1..size |-> Indet])

\* FileState::PreAllocate (memenv.cc:103-111).  memset(&padding, 0, 1) zeroes
\* a byte of the pointer, not of the buffer, so the size bytes AppendRaw copies
\* are unset; size_ is then wound back by size, the pushed blocks stay.
PreAllocate(f, size) ==
    LET padding == [i \in 1..size |-> Indet]
        g       == AppendRaw(f, padding)
    IN  [g EXCEPT !.size = g.size - size]

\* The copy loop of FileState::Read (memenv.cc:86-97): the bytes gathered into
\* scratch, starting in `block` (0-based) at `block_offset`.
RECURSIVE ReadCopy(_, _, _, _)
ReadCopy(f, block, block_offset, bytes_to_copy) ==
    IF bytes_to_copy <= 0
    THEN <<>>
    ELSE LET room  == kBlockSize - block_offset
             avail == IF room > bytes_to_copy THEN bytes_to_copy ELSE room
         IN  SubSeq(f.blocks[block + 1], block_offset + 1, block_offset + avail)
               \o ReadCopy(f, block + 1, 0, bytes_to_copy - avail)

\* A range check that also refuses offset = size_.
PastEnd_Inclusive(f, offset) == offset >= f.size

\* if (offset > size_) (memenv.cc:62).
PastEnd(f, offset) == offset > f.size

\* FileState::Read (memenv.cc:61-101): the Status and the bytes the result
\* Slice denotes (unset bytes still marked Indet).
Read(f, offset, n) ==
    IF PastEnd(f, offset)
    THEN [status |-> "IOError", data |-> <<>>]
    ELSE LET available    == f.size - offset
             m            == IF n > available THEN available ELSE n
             block        == offset \div kBlockSize
             block_offset == offset % kBlockSize
         IN  IF m = 0
             THEN [status |-> "OK", data |-> <<>>]
             ELSE IF m <= kBlockSize - block_offset
             THEN [status |-> "OK",
                   data   |-> SubSeq(f.blocks[block + 1], block_offset + 1,
                                     block_offset + m)]
             ELSE [status |-> "OK", data |-> ReadCopy(f, block, block_offset, m)]

\* The values a caller can see in place of `raw`: every unset byte is some
\* Byte, every written byte is itself.
Observable(raw) ==
    {d \in [1..Len(raw) -> Byte] :
        \A i \in 1..Len(raw) : raw[i] # Indet => d[i] = raw[i]}

\* ------------------------------------------------- SpecFile: views on one file

NoRes == [op |-> "none", status |-> "OK", offset |-> 0, n |-> 0, data |-> <<>>]

InitFile ==
    /\ fs = EmptyContent
    /\ pos = 0
    /\ res = NoRes
    /\ crashed = FALSE
    /\ written = <<>>
    /\ preallocated = FALSE

\* WritableFileImpl::Append (memenv.cc:241-243).
WritableFileImpl_Append(data) ==
    /\ ~crashed
    /\ fs.size + Len(data) <= MaxSize
    /\ Len(FileState_Append(fs, data).blocks) <= MaxBlocks
    /\ fs' = FileState_Append(fs, data)
    /\ written' = written \o data
    /\ res' = [op |-> "append", status |-> "OK", offset |-> fs.size,
               n |-> Len(data), data |-> data]
    /\ UNCHANGED <<pos, crashed, preallocated>>

\* The loop of WritableFileImpl::AppendVector (memenv.cc:247-252): each Slice
\* appended in turn.  FileState::Append never fails, so the loop never stops
\* early.
RECURSIVE AppendVector(_, _)
AppendVector(f, data_vector) ==
    IF data_vector = <<>>
    THEN f
    ELSE AppendVector(FileState_Append(f, Head(data_vector)), Tail(data_vector))

\* The bytes of the Slices of a vector, in order.
RECURSIVE Flatten(_)
Flatten(data_vector) ==
    IF data_vector = <<>> THEN <<>>
    ELSE Head(data_vector) \o Flatten(Tail(data_vector))

\* WritableFileImpl::AppendVector (memenv.cc:247-252).
WritableFileImpl_AppendVector(data_vector) ==
    /\ ~crashed
    /\ fs.size + Len(Flatten(data_vector)) <= MaxSize
    /\ Len(AppendVector(fs, data_vector).blocks) <= MaxBlocks
    /\ fs' = AppendVector(fs, data_vector)
    /\ written' = written \o Flatten(data_vector)
    /\ res' = [op |-> "appendv", status |-> "OK", offset |-> fs.size,
               n |-> Len(Flatten(data_vector)), data |-> Flatten(data_vector)]
    /\ UNCHANGED <<pos, crashed, preallocated>>

\* WritableFileImpl::PreAllocate (memenv.cc:237-239) -> FileState::PreAllocate.
\* delete [] padding (memenv.cc:108) frees the clobbered pointer: the call
\* either returns or the allocator aborts the process, whose memory is gone.
WritableFileImpl_PreAllocate(size) ==
    /\ ~crashed
    /\ fs.size + size <= MaxSize
    /\ Len(PreAllocate(fs, size).blocks) <= MaxBlocks
    /\ \/ /\ fs' = PreAllocate(fs, size)
          /\ res' = [op |-> "preallocate", status |-> "OK", offset |-> fs.size,
                     n |-> size, data |-> <<>>]
          /\ preallocated' = TRUE
          /\ UNCHANGED crashed
          /\ UNCHANGED <<pos, written>>
       \/ /\ crashed' = TRUE
          /\ fs' = EmptyContent
          /\ pos' = 0
          /\ res' = NoRes
          /\ written' = <<>>
          /\ preallocated' = FALSE

\* RandomAccessFileImpl::Read (memenv.cc:213-216).
RandomAccessFileImpl_Read(offset, n) ==
    /\ ~crashed
    /\ LET r == Read(fs, offset, n)
       IN  \E d \in Observable(r.data) :
              res' = [op |-> "read", status |-> r.status, offset |-> offset,
                      n |-> n, data |-> d]
    /\ UNCHANGED <<fs, pos, crashed, written, preallocated>>

\* A sequential read that forgets pos_ += result->size().
SequentialFileImpl_ReadOp_NoAdvance(f, p, n) ==
    [status |-> Read(f, p, n).status, data |-> Read(f, p, n).data, pos |-> p]

\* SequentialFileImpl::Read (memenv.cc:178-184) on file f with cursor p: the
\* Status, the result and the cursor afterwards.
SequentialFileImpl_ReadOp(f, p, n) ==
    LET r == Read(f, p, n)
    IN  [status |-> r.status, data |-> r.data,
         pos |-> IF r.status = "OK" THEN p + Len(r.data) ELSE p]

\* A read through the sequential view of SpecSeq.
SequentialFileImpl_Read(n) ==
    /\ ~crashed
    /\ LET r == SequentialFileImpl_ReadOp(fs, pos, n)
       IN  /\ \E d \in Observable(r.data) :
                 res' = [op |-> "seqread", status |-> r.status, offset |-> pos,
                         n |-> n, data |-> d]
           /\ pos' = r.pos
    /\ UNCHANGED <<fs, crashed, written, preallocated>>

\* SequentialFileImpl::Skip (memenv.cc:186-196).
SequentialFileImpl_Skip(n) ==
    /\ ~crashed
    /\ IF pos > Size(fs)
       THEN /\ res' = [op |-> "skip", status |-> "IOError", offset |-> pos,
                       n |-> n, data |-> <<>>]
            /\ UNCHANGED pos
       ELSE LET available == Size(fs) - pos
                k         == IF n > available THEN available ELSE n
            IN  /\ pos' = pos + k
                /\ res' = [op |-> "skip", status |-> "OK", offset |-> pos,
                           n |-> n, data |-> <<>>]
    /\ UNCHANGED <<fs, crashed, written, preallocated>>

NextFile ==
    \/ /\ \E data \in SeqUpTo(Byte, MaxLen) : WritableFileImpl_Append(data)
       /\ FileFrame
    \/ /\ \E size \in 0..MaxLen : WritableFileImpl_PreAllocate(size)
       /\ FileFrame
    \/ /\ \E offset \in 0..(fs.size + 1), n \in 0..MaxRead :
             RandomAccessFileImpl_Read(offset, n)
       /\ FileFrame

\* The calls on the writable view alone.
NextWrite ==
    \/ /\ \E data \in SeqUpTo(Byte, MaxLen) : WritableFileImpl_Append(data)
       /\ FileFrame
    \/ /\ \E data_vector \in SeqUpTo(SeqUpTo(Byte, MaxLen), MaxVec) :
             WritableFileImpl_AppendVector(data_vector)
       /\ FileFrame
    \/ /\ \E size \in 0..MaxLen : WritableFileImpl_PreAllocate(size)
       /\ FileFrame

NextSeq ==
    \/ /\ \E data \in SeqUpTo(Byte, MaxLen) : WritableFileImpl_Append(data)
       /\ FileFrame
    \/ /\ \E size \in 0..MaxLen : WritableFileImpl_PreAllocate(size)
       /\ FileFrame
    \/ /\ \E n \in 0..MaxRead : SequentialFileImpl_Read(n)
       /\ FileFrame
    \/ /\ \E n \in 0..MaxRead : SequentialFileImpl_Skip(n)
       /\ FileFrame

\* -------------------------------------------------------------------- paths

\* std::string paths as sequences of characters.
P_a     == <<"/", "a">>
P_a_s   == <<"/", "a", "/">>
P_a_b   == <<"/", "a", "/", "b">>
P_a_c_d == <<"/", "a", "/", "c", "/", "d">>
P_ab    == <<"/", "a", "b">>
P_b     == <<"/", "b">>
P_a_x   == <<"/", "a", "/", "x">>
P_a_y   == <<"/", "a", "/", "y">>
P_b_z   == <<"/", "b", "/", "z">>

\* The file names the callers of Spec use, and the directory names they pass
\* to DeleteRecursively and GetChildren.
Paths == {P_a_b, P_ab}
Dirs  == {P_a}

\* The same for the callers of SpecNs.
NsPaths == {P_a, P_a_b, P_a_c_d, P_ab, P_b}
NsDirs  == {P_a, P_a_s}

\* The same for the callers of SpecLock.
LockPaths == {P_a_b}
LockDirs  == {P_a}

\* The same for the callers of SpecLs.
LsPaths == {P_a_x, P_a_y, P_b_z, P_a_c_d, P_a_s}
LsDirs  == {P_a, P_b}

\* The byte value of a character (std::string compares bytewise).
CharCode ==
    ("/" :> 47) @@ ("a" :> 97) @@ ("b" :> 98) @@ ("c" :> 99) @@ ("d" :> 100)
    @@ ("x" :> 120) @@ ("y" :> 121) @@ ("z" :> 122)

\* std::less<std::string>, the key order of std::map (memenv.cc:434).
RECURSIVE LexLess(_, _)
LexLess(s, t) ==
    IF Len(t) = 0 THEN FALSE
    ELSE IF Len(s) = 0 THEN TRUE
    ELSE IF CharCode[Head(s)] # CharCode[Head(t)]
         THEN CharCode[Head(s)] < CharCode[Head(t)]
         ELSE LexLess(Tail(s), Tail(t))

\* The keys of a std::map in iteration order (begin() to end()).
RECURSIVE SortedKeys(_)
SortedKeys(S) ==
    IF S = {} THEN <<>>
    ELSE LET m == CHOOSE x \in S : \A y \in S \ {x} : LexLess(x, y)
         IN  <<m>> \o SortedKeys(S \ {m})

\* Slice::starts_with.
starts_with(s, prefix) ==
    Len(s) >= Len(prefix) /\ SubSeq(s, 1, Len(prefix)) = prefix

\* ------------------------------------------- the heap and the reference count

\* No FileState lives at an address (never allocated, or deleted).
NoObject == [live |-> FALSE, refs |-> 0, blocks |-> <<>>, size |-> 0]

\* new FileState(): refs_(0), size_(0), no blocks (memenv.cc:33).
NewFileState == [live |-> TRUE, refs |-> 0, blocks |-> <<>>, size |-> 0]

\* A view object: its class, its file_ and (SequentialFileImpl) its pos_
\* (memenv.cc:170, 205, 229).  Views that agree on all three are
\* interchangeable, so the open views are kept as a bag.
NewView(kind, file) == [kind |-> kind, file |-> file, pos |-> 0]

\* std::map::erase(key) and std::map::operator[](key) = value.
Erase(m, k) == [x \in DOMAIN m \ {k} |-> m[x]]
Insert(m, k, v) == [x \in DOMAIN m \cup {k} |-> IF x = k THEN v ELSE m[x]]

\* The null FileState* that operator[] stores for a key it has to create.
NullPtr == 0

\* The namespace and the heap as one value e = [map, files, ub], so that the
\* operations compose as in the code.

\* FileState::Ref (memenv.cc:36-39).  Through a pointer to a deleted object
\* the behaviour is undefined.
Ref(e, f) ==
    IF f = NullPtr \/ ~e.files[f].live
    THEN [e EXCEPT !.ub = TRUE]
    ELSE [e EXCEPT !.files[f].refs = @ + 1]

\* delete this (memenv.cc:55) with ~FileState (memenv.cc:145-150): the object
\* and its blocks are gone.
Delete(e, f) == [e EXCEPT !.files[f] = NoObject]

\* An Unref that deletes the object whatever the count.
Unref_DeleteAlways(e, f) ==
    IF f = NullPtr \/ ~e.files[f].live
    THEN [e EXCEPT !.ub = TRUE]
    ELSE Delete(e, f)

\* FileState::Unref (memenv.cc:42-57).
Unref(e, f) ==
    IF f = NullPtr \/ ~e.files[f].live
    THEN [e EXCEPT !.ub = TRUE]
    ELSE LET e1 == [e EXCEPT !.files[f].refs = @ - 1]
         IN  IF e1.files[f].refs <= 0 THEN Delete(e1, f) ELSE e1

\* A DeleteFileInternal that erases the entry and forgets the Unref.
DeleteFileInternal_NoUnref(e, fname) ==
    IF fname \notin DOMAIN e.map
    THEN e
    ELSE [e EXCEPT !.map = Erase(e.map, fname)]

\* InMemoryEnv::DeleteFileInternal (memenv.cc:341-348).
DeleteFileInternal(e, fname) ==
    IF fname \notin DOMAIN e.map
    THEN e
    ELSE LET e1 == Unref(e, e.map[fname])
         IN  [e1 EXCEPT !.map = Erase(e1.map, fname)]

\* A DeleteRecursively that matches against dirname as given.
NormalizedDir_AsGiven(dirname) == dirname

\* if (dir[dir.size() - 1] != '/') dir.push_back('/') (memenv.cc:374-377).
NormalizedDir(dirname) ==
    IF dirname[Len(dirname)] # "/" THEN dirname \o <<"/">> ELSE dirname

MatchesDir(filename, dir) ==
    Len(filename) >= Len(dir) /\ starts_with(filename, dir)

\* The loop of InMemoryEnv::DeleteRecursively (memenv.cc:381-389) on the map:
\* every key with the normalized prefix erased.  The FileState* of an erased
\* entry is dropped without Unref.
DeleteRecursivelyMap(e, dirname) ==
    LET dir  == NormalizedDir(dirname)
        keep == {k \in DOMAIN e.map : ~MatchesDir(k, dir)}
    IN  [e EXCEPT !.map = [k \in keep |-> e.map[k]]]

\* A RenameFile that forgets file_map_.erase(src).
RenameMap_KeepSrc(e, src, target) ==
    LET e1 == DeleteFileInternal(e, target)
        m1 == IF src \in DOMAIN e1.map THEN e1.map ELSE Insert(e1.map, src, NullPtr)
    IN  [e1 EXCEPT !.map = Insert(m1, target, m1[src])]

\* file_map_[target] = file_map_[src]; file_map_.erase(src) (memenv.cc:412-413).
\* file_map_[src] creates a null entry when DeleteFileInternal(target) has
\* just erased src (src = target).
RenameEntries(map, src, target) ==
    LET m1 == IF src \in DOMAIN map THEN map ELSE Insert(map, src, NullPtr)
        m2 == Insert(m1, target, m1[src])
    IN  Erase(m2, src)

\* InMemoryEnv::RenameFile once src is found (memenv.cc:411-413).
RenameMap(e, src, target) ==
    LET e1 == DeleteFileInternal(e, target)
    IN  [e1 EXCEPT !.map = RenameEntries(e1.map, src, target)]

\* The loop of InMemoryEnv::GetChildren (memenv.cc:329-336) over the keys in
\* map order.
RECURSIVE GetChildrenLoop(_, _)
GetChildrenLoop(keys, dir) ==
    IF keys = <<>> THEN <<>>
    ELSE LET filename == Head(keys)
             rest     == GetChildrenLoop(Tail(keys), dir)
         IN  IF /\ Len(filename) >= Len(dir) + 1
                /\ filename[Len(dir) + 1] = "/"
                /\ starts_with(filename, dir)
             THEN <<SubSeq(filename, Len(dir) + 2, Len(filename))>> \o rest
             ELSE rest

GetChildrenOp(map, dir) == GetChildrenLoop(SortedKeys(DOMAIN map), dir)

\* A lookup by file_map_[fname], which creates a null entry for a missing key.
Find_ByIndex(e, fname) ==
    IF fname \in DOMAIN e.map THEN e
    ELSE [e EXCEPT !.map = Insert(e.map, fname, NullPtr)]

\* file_map_.find(fname) == file_map_.end() (memenv.cc:277, 289, 352, 396,
\* 407) for a missing key: the lookup leaves the map and the heap as they are.
Find(e, fname) == e

\* InMemoryEnv::FileExists (memenv.cc:319-322).
FileExistsOp(map, fname) == fname \in DOMAIN map

\* ------------------------------------------------ Spec: whole calls, atomic

Env == [map |-> file_map, files |-> files, ub |-> ub]

SetEnv(e) ==
    /\ file_map' = e.map
    /\ files' = e.files
    /\ ub' = e.ub

\* Heap addresses: enough for either specification.
FileIds == 1..(IF MaxNsFiles > MaxFiles THEN MaxNsFiles ELSE MaxFiles)

LiveFiles == {a \in FileIds : files[a].live}
OpenViews == BagToSet(views)
NumViews == BagCardinality(views)

\* The pointers the program holds: map entries and the views' file_.
Referenced(map, vs) ==
    {map[k] : k \in DOMAIN map} \cup {vw.file : vw \in BagToSet(vs)}

\* Addresses operator new can return: no object lives there.  Addresses that a
\* stale pointer still names are left out, so that a stale pointer stays
\* recognisable.
FreeAddrs(e, vs) ==
    {a \in FileIds : ~e.files[a].live /\ a \notin Referenced(e.map, vs)}

Lowest(S) == CHOOSE a \in S : \A b \in S : a <= b

InitEnv ==
    /\ file_map = << >>
    /\ files = [a \in FileIds |-> NoObject]
    /\ views = EmptyBag
    /\ ub = FALSE
    /\ last = [op |-> "none"]
    /\ leaked = {}

\* InMemoryEnv::NewWritableFile (memenv.cc:304-317).
NewWritableFile(fname) ==
    /\ ~ub
    /\ LET e1 == IF fname \in DOMAIN file_map
                 THEN DeleteFileInternal(Env, fname)
                 ELSE Env
       IN  /\ FreeAddrs(e1, views) # {}
           /\ LET file == Lowest(FreeAddrs(e1, views))
                  e2   == [e1 EXCEPT !.files[file] = NewFileState]
                  e3   == Ref(e2, file)
                  e4   == [e3 EXCEPT !.map = Insert(e3.map, fname, file)]
                  e5   == Ref(e4, file)     \* WritableFileImpl(file)
                  vw   == NewView("WritableFile", file)
              IN  /\ SetEnv(e5)
                  /\ views' = views (+) SetToBag({vw})
                  /\ last' = [op |-> "NewWritableFile", fname |-> fname,
                              status |-> "OK", view |-> vw,
                              replaced |-> IF fname \in DOMAIN file_map
                                           THEN file_map[fname] ELSE NullPtr]
                  /\ UNCHANGED leaked

\* InMemoryEnv::NewSequentialFile (memenv.cc:274-284) and
\* InMemoryEnv::NewRandomAccessFile (memenv.cc:286-296), which differ in the
\* class of the view only.
NewReadableFile(kind, fname) ==
    /\ ~ub
    /\ IF fname \notin DOMAIN file_map
       THEN /\ last' = [op |-> "New" \o kind, fname |-> fname,
                        status |-> "IOError"]
            /\ SetEnv(Find(Env, fname))
            /\ UNCHANGED <<views, leaked>>
       ELSE LET vw == NewView(kind, file_map[fname])
            IN  /\ SetEnv(Ref(Env, vw.file))    \* the view's constructor
                /\ views' = views (+) SetToBag({vw})
                /\ last' = [op |-> "New" \o kind, fname |-> fname,
                            status |-> "OK", view |-> vw]
                /\ UNCHANGED leaked

NewSequentialFile(fname) == NewReadableFile("SequentialFile", fname)
NewRandomAccessFile(fname) == NewReadableFile("RandomAccessFile", fname)

\* ~SequentialFileImpl, ~RandomAccessFileImpl, ~WritableFileImpl
\* (memenv.cc:174-176, 209-211, 233-235).
DestroyView(vw) ==
    /\ ~ub
    /\ BagIn(vw, views)
    /\ SetEnv(Unref(Env, vw.file))
    /\ views' = views (-) SetToBag({vw})
    /\ last' = [op |-> "DestroyView", view |-> vw]
    /\ UNCHANGED leaked

\* InMemoryEnv::FileExists (memenv.cc:319-322).
FileExists(fname) ==
    /\ ~ub
    /\ last' = [op |-> "FileExists", fname |-> fname,
                result |-> FileExistsOp(file_map, fname)]
    /\ UNCHANGED <<file_map, files, views, ub, leaked>>

\* InMemoryEnv::GetChildren (memenv.cc:324-339).
GetChildren(dir) ==
    /\ ~ub
    /\ last' = [op |-> "GetChildren", dir |-> dir, status |-> "OK",
                result |-> GetChildrenOp(file_map, dir)]
    /\ UNCHANGED <<file_map, files, views, ub, leaked>>

\* InMemoryEnv::DeleteFile (memenv.cc:350-358).
DeleteFile(fname) ==
    /\ ~ub
    /\ IF fname \notin DOMAIN file_map
       THEN /\ last' = [op |-> "DeleteFile", fname |-> fname, status |-> "IOError"]
            /\ SetEnv(Find(Env, fname))
       ELSE /\ SetEnv(DeleteFileInternal(Env, fname))
            /\ last' = [op |-> "DeleteFile", fname |-> fname, status |-> "OK",
                        file |-> file_map[fname]]
    /\ UNCHANGED <<views, leaked>>

\* InMemoryEnv::DeleteRecursively (memenv.cc:372-392).
DeleteRecursively(dirname) ==
    /\ ~ub
    /\ dirname # <<>>                       \* CHECK(!dirname.empty())
    /\ SetEnv(DeleteRecursivelyMap(Env, dirname))
    /\ LET removed == DOMAIN file_map \ DOMAIN DeleteRecursivelyMap(Env, dirname).map
       IN  /\ last' = [op |-> "DeleteRecursively", dirname |-> dirname,
                       status |-> "OK", removed |-> removed]
           /\ leaked' = leaked \cup {file_map[k] : k \in removed}
    /\ UNCHANGED views

\* InMemoryEnv::GetFileSize (memenv.cc:394-402).
GetFileSize(fname) ==
    /\ ~ub
    /\ IF fname \notin DOMAIN file_map
       THEN /\ last' = [op |-> "GetFileSize", fname |-> fname,
                        status |-> "IOError", result |-> 0]
            /\ SetEnv(Find(Env, fname))
       ELSE IF ~files[file_map[fname]].live
       THEN /\ ub' = TRUE
            /\ UNCHANGED <<last, file_map, files>>
       ELSE /\ last' = [op |-> "GetFileSize", fname |-> fname, status |-> "OK",
                        result |-> Size(files[file_map[fname]])]
            /\ UNCHANGED <<ub, file_map, files>>
    /\ UNCHANGED <<views, leaked>>

\* InMemoryEnv::RenameFile (memenv.cc:404-415).
RenameFile(src, target) ==
    /\ ~ub
    /\ IF src \notin DOMAIN file_map
       THEN /\ last' = [op |-> "RenameFile", src |-> src, target |-> target,
                        status |-> "IOError"]
            /\ SetEnv(Find(Env, src))
       ELSE /\ SetEnv(RenameMap(Env, src, target))
            /\ last' = [op |-> "RenameFile", src |-> src, target |-> target,
                        status |-> "OK",
                        replaced |-> IF target \in DOMAIN file_map
                                     THEN file_map[target] ELSE NullPtr]
    /\ UNCHANGED <<views, leaked>>

\* WritableFileImpl::Append (memenv.cc:241-243) through view vw.
View_Append(vw, data) ==
    /\ ~ub
    /\ BagIn(vw, views) /\ vw.kind = "WritableFile"
    /\ IF ~files[vw.file].live
       THEN ub' = TRUE /\ UNCHANGED <<files, last>>
       ELSE /\ files[vw.file].size + Len(data) <= MaxEnvSize
            /\ files' = [files EXCEPT ![vw.file] = FileState_Append(@, data)]
            /\ last' = [op |-> "Append", view |-> vw, data |-> data,
                        status |-> "OK"]
            /\ UNCHANGED ub
    /\ UNCHANGED <<file_map, views, leaked>>

\* SequentialFileImpl::Read (memenv.cc:178-184) through view vw.
View_SeqRead(vw, n) ==
    /\ ~ub
    /\ BagIn(vw, views) /\ vw.kind = "SequentialFile"
    /\ IF ~files[vw.file].live
       THEN ub' = TRUE /\ UNCHANGED <<views, last>>
       ELSE LET r == SequentialFileImpl_ReadOp(files[vw.file], vw.pos, n)
            IN  /\ views' = (views (-) SetToBag({vw}))
                               (+) SetToBag({[vw EXCEPT !.pos = r.pos]})
                /\ last' = [op |-> "SeqRead", view |-> vw, n |-> n,
                            status |-> r.status, data |-> r.data]
                /\ UNCHANGED ub
    /\ UNCHANGED <<file_map, files, leaked>>

\* RandomAccessFileImpl::Read (memenv.cc:213-216) through view vw.
View_Read(vw, offset, n) ==
    /\ ~ub
    /\ BagIn(vw, views) /\ vw.kind = "RandomAccessFile"
    /\ IF ~files[vw.file].live
       THEN ub' = TRUE /\ UNCHANGED last
       ELSE LET r == Read(files[vw.file], offset, n)
            IN  /\ last' = [op |-> "Read", view |-> vw, offset |-> offset,
                            n |-> n, status |-> r.status, data |-> r.data]
                /\ UNCHANGED ub
    /\ UNCHANGED <<file_map, files, views, leaked>>

\* The calls of Spec's callers.  A call that needs a new FileState or a new
\* view is made only below the bounds.
NextEnv ==
    \/ /\ \E fname \in Paths :
             /\ Cardinality(LiveFiles) < MaxFiles /\ NumViews < MaxViews
             /\ NewWritableFile(fname)
       /\ EnvFrame
    \/ /\ \E fname \in Paths :
             NumViews < MaxViews /\ NewSequentialFile(fname)
       /\ EnvFrame
    \/ /\ \E fname \in Paths :
             NumViews < MaxViews /\ NewRandomAccessFile(fname)
       /\ EnvFrame
    \/ /\ \E vw \in OpenViews : DestroyView(vw)
       /\ EnvFrame
    \/ /\ \E fname \in Paths : FileExists(fname)
       /\ EnvFrame
    \/ /\ \E dir \in Dirs : GetChildren(dir)
       /\ EnvFrame
    \/ /\ \E fname \in Paths : DeleteFile(fname)
       /\ EnvFrame
    \/ /\ \E dirname \in Dirs : DeleteRecursively(dirname)
       /\ EnvFrame
    \/ /\ \E fname \in Paths : GetFileSize(fname)
       /\ EnvFrame
    \/ /\ \E src \in Paths, target \in Paths : RenameFile(src, target)
       /\ EnvFrame
    \/ /\ \E vw \in OpenViews, data \in [1..1 -> Byte] : View_Append(vw, data)
       /\ EnvFrame
    \/ /\ \E vw \in OpenViews, n \in 1..MaxEnvSize : View_SeqRead(vw, n)
       /\ EnvFrame
    \/ /\ \E vw \in OpenViews, offset \in 0..MaxEnvSize : View_Read(vw, offset, MaxEnvSize)
       /\ EnvFrame

\* The calls of SpecNs's callers: more names, and the files stay empty.
NextNs ==
    \/ /\ \E fname \in NsPaths :
             /\ Cardinality(LiveFiles) < MaxNsFiles /\ NumViews < MaxNsViews
             /\ NewWritableFile(fname)
       /\ EnvFrame
    \/ /\ \E vw \in OpenViews : DestroyView(vw)
       /\ EnvFrame
    \/ /\ \E dir \in NsDirs : GetChildren(dir)
       /\ EnvFrame
    \/ /\ \E fname \in NsPaths : DeleteFile(fname)
       /\ EnvFrame
    \/ /\ \E dirname \in NsDirs : DeleteRecursively(dirname)
       /\ EnvFrame

\* The calls of SpecLs's callers: files made and deleted in any order, and
\* listed.
NextLs ==
    \/ /\ \E fname \in LsPaths :
             /\ Cardinality(LiveFiles) < MaxNsFiles /\ NumViews < MaxNsViews
             /\ NewWritableFile(fname)
       /\ EnvFrame
    \/ /\ \E vw \in OpenViews : DestroyView(vw)
       /\ EnvFrame
    \/ /\ \E dir \in LsDirs : GetChildren(dir)
       /\ EnvFrame
    \/ /\ \E fname \in LsPaths : DeleteFile(fname)
       /\ EnvFrame

\* ------------------------------------------- SpecConc: threads in the calls
\*
\* A thread is idle, or inside one call.  Inside a call it moves through
\*   "lock"         at lock_guard<mutex> lock(mutex_), not yet holding it
\*   "body"         holding mutex_, at the call's first statement
\*   "ref_lock"     in Ref(), at lock_guard<mutex> lock(refs_mutex_)
\*   "ref_inc"      in Ref(), holding refs_mutex_, at ++refs_
\*   "unref_lock"   in Unref(), at lock_guard<mutex> lock(refs_mutex_)
\*   "unref_dec"    in Unref(), holding refs_mutex_, at --refs_
\*   "unref_delete" in Unref(), refs_mutex_ released, at if (do_delete)
\*   "resume"       back in the caller of Ref() or Unref()
\*   "unlock"       at the return, still holding mutex_
\* Statements that touch only file_map_ and the thread's locals run together
\* in one step: file_map_ is reached under mutex_ only.  Addresses are not
\* reused, so a pointer to a deleted FileState never looks valid again.

Threads == 1..NumThreads

\* mutex_ or a refs_mutex_ with no owner.
NoThread == 0

NoView == [kind |-> "none", file |-> NullPtr, pos |-> 0]
NoRet == [status |-> "none", value |-> NullPtr]

NoLocal ==
    [op |-> "none", fname |-> <<>>, target |-> <<>>, file |-> NullPtr,
     do_delete |-> FALSE, stage |-> 0, view |-> NoView,
     ret |-> NoRet, expect |-> NoRet]

InitConc ==
    /\ mutex_ = NoThread
    /\ refs_mutex_ = [a \in FileIds |-> NoThread]
    /\ pc = [t \in Threads |-> "idle"]
    /\ local = [t \in Threads |-> NoLocal]
    /\ allocated = 0
    /\ serial = << >>

\* A lock_guard that does not wait.
MutexFree_Always(owner) == TRUE

\* lock_guard<mutex>'s constructor returns once the mutex has no owner.
MutexFree(owner) == owner = NoThread

\* An Unref that deletes while one reference is left.
DoDelete_AtOne(refs) == refs <= 1

\* if (refs_ <= 0) do_delete = true (memenv.cc:49-51).
DoDelete(refs) == refs <= 0

OkRet(v) == [status |-> "OK", value |-> v]
NotFoundRet == [status |-> "IOError", value |-> NullPtr]

\* What call l makes of the map when it runs alone, operator new returning
\* addr (memenv.cc:304-317, 350-358, 372-392, 404-415).
SerialMap(map, l, addr) ==
    LET e == [map |-> map, files |-> files, ub |-> FALSE]
    IN  CASE l.op = "NewWritableFile" ->
                 Insert(DeleteFileInternal(e, l.fname).map, l.fname, addr)
          [] l.op = "DeleteFile" -> DeleteFileInternal(e, l.fname).map
          [] l.op = "DeleteRecursively" -> DeleteRecursivelyMap(e, l.fname).map
          [] l.op = "RenameFile" ->
                 IF l.fname \in DOMAIN map
                 THEN RenameMap(e, l.fname, l.target).map
                 ELSE map
          [] OTHER -> map

\* What call l returns when it runs alone on map (memenv.cc:274-415): the
\* Status, and the FileState* of the view, the bool, the names or the size.
SerialRet(map, l, addr) ==
    CASE l.op \in {"NewSequentialFile", "NewRandomAccessFile"} ->
             IF l.fname \in DOMAIN map THEN OkRet(map[l.fname]) ELSE NotFoundRet
      [] l.op = "NewWritableFile" -> OkRet(addr)
      [] l.op = "FileExists" -> OkRet(FileExistsOp(map, l.fname))
      [] l.op = "GetChildren" -> OkRet(GetChildrenOp(map, l.fname))
      [] l.op = "GetFileSize" ->
             IF l.fname \in DOMAIN map /\ map[l.fname] # NullPtr
             THEN OkRet(Size(files[map[l.fname]]))
             ELSE NotFoundRet
      [] l.op \in {"DeleteFile", "RenameFile"} ->
             IF l.fname \in DOMAIN map THEN OkRet(NullPtr) ELSE NotFoundRet
      [] OTHER -> OkRet(NullPtr)

\* The calls of NewWritableFile that have not reached new FileState() yet.
PendingNew == {t \in Threads : local[t].op = "NewWritableFile" /\ local[t].stage = 0}

\* A thread enters a call of InMemoryEnv.
Call(t, op, fname, target) ==
    /\ pc[t] = "idle"
    /\ pc' = [pc EXCEPT ![t] = "lock"]
    /\ local' = [local EXCEPT ![t] =
                    [NoLocal EXCEPT !.op = op, !.fname = fname, !.target = target]]
    /\ UNCHANGED <<file_map, files, views, ub, mutex_, refs_mutex_, allocated, serial>>

\* lock_guard<mutex> lock(mutex_) (memenv.cc:276, 288, 306, 320, 326, 351,
\* 379, 395, 406).  The call takes effect in the serial order here.
Lock(t) ==
    /\ pc[t] = "lock"
    /\ MutexFree(mutex_)
    /\ mutex_' = t
    /\ serial' = SerialMap(serial, local[t], allocated + 1)
    /\ local' = [local EXCEPT ![t].expect = SerialRet(serial, local[t], allocated + 1)]
    /\ pc' = [pc EXCEPT ![t] = "body"]
    /\ UNCHANGED <<file_map, files, views, ub, refs_mutex_, allocated>>

\* The return: the lock_guard releases mutex_, the caller gets the view.
Unlock(t) ==
    /\ pc[t] = "unlock"
    /\ mutex_' = NoThread
    /\ views' = IF local[t].view = NoView THEN views
                ELSE views (+) SetToBag({local[t].view})
    /\ local' = [local EXCEPT ![t] = NoLocal]
    /\ pc' = [pc EXCEPT ![t] = "idle"]
    /\ UNCHANGED <<file_map, files, ub, refs_mutex_, allocated, serial>>

\* A pointer that names no live FileState.
Dangling(f) == f = NullPtr \/ ~files[f].live

\* Ref(): lock_guard<mutex> lock(refs_mutex_) (memenv.cc:37).
RefLock(t) ==
    /\ pc[t] = "ref_lock"
    /\ LET f == local[t].file
       IN  IF Dangling(f)
           THEN /\ ub' = TRUE
                /\ pc' = [pc EXCEPT ![t] = "resume"]
                /\ UNCHANGED refs_mutex_
           ELSE /\ MutexFree(refs_mutex_[f])
                /\ refs_mutex_' = [refs_mutex_ EXCEPT ![f] = t]
                /\ pc' = [pc EXCEPT ![t] = "ref_inc"]
                /\ UNCHANGED ub
    /\ UNCHANGED <<file_map, files, views, mutex_, local, allocated, serial>>

\* Ref(): ++refs_, and the lock_guard releases refs_mutex_ (memenv.cc:38-39).
RefInc(t) ==
    /\ pc[t] = "ref_inc"
    /\ LET f == local[t].file
       IN  /\ IF Dangling(f)
              THEN ub' = TRUE /\ UNCHANGED files
              ELSE files' = [files EXCEPT ![f].refs = @ + 1] /\ UNCHANGED ub
           /\ refs_mutex_' = [refs_mutex_ EXCEPT ![f] = NoThread]
    /\ pc' = [pc EXCEPT ![t] = "resume"]
    /\ UNCHANGED <<file_map, views, mutex_, local, allocated, serial>>

\* Unref(): lock_guard<mutex> lock(refs_mutex_) (memenv.cc:46).
UnrefLock(t) ==
    /\ pc[t] = "unref_lock"
    /\ LET f == local[t].file
       IN  IF Dangling(f)
           THEN /\ ub' = TRUE
                /\ pc' = [pc EXCEPT ![t] = "resume"]
                /\ UNCHANGED refs_mutex_
           ELSE /\ MutexFree(refs_mutex_[f])
                /\ refs_mutex_' = [refs_mutex_ EXCEPT ![f] = t]
                /\ pc' = [pc EXCEPT ![t] = "unref_dec"]
                /\ UNCHANGED ub
    /\ UNCHANGED <<file_map, files, views, mutex_, local, allocated, serial>>

\* Unref(): --refs_; if (refs_ <= 0) do_delete = true; and the lock_guard
\* releases refs_mutex_ (memenv.cc:47-52).
UnrefDec(t) ==
    /\ pc[t] = "unref_dec"
    /\ LET f == local[t].file
       IN  /\ refs_mutex_' = [refs_mutex_ EXCEPT ![f] = NoThread]
           /\ IF Dangling(f)
              THEN /\ ub' = TRUE
                   /\ pc' = [pc EXCEPT ![t] = "resume"]
                   /\ UNCHANGED <<files, local>>
              ELSE LET do_delete == DoDelete(files[f].refs - 1)
                   IN  /\ files' = [files EXCEPT ![f].refs = @ - 1]
                       /\ local' = [local EXCEPT ![t].do_delete = do_delete]
                       /\ pc' = [pc EXCEPT ![t] =
                                    IF do_delete THEN "unref_delete" ELSE "resume"]
                       /\ UNCHANGED ub
    /\ UNCHANGED <<file_map, views, mutex_, allocated, serial>>

\* Unref(): if (do_delete) delete this (memenv.cc:54-56).  Deleting what is
\* already deleted is undefined.
UnrefDelete(t) ==
    /\ pc[t] = "unref_delete"
    /\ LET f == local[t].file
       IN  IF Dangling(f)
           THEN ub' = TRUE /\ UNCHANGED files
           ELSE files' = Delete(Env, f).files /\ UNCHANGED ub
    /\ pc' = [pc EXCEPT ![t] = "resume"]
    /\ UNCHANGED <<file_map, views, mutex_, refs_mutex_, local, allocated, serial>>

\* ~SequentialFileImpl, ~RandomAccessFileImpl, ~WritableFileImpl
\* (memenv.cc:174-176, 209-211, 233-235): the owner of a view destroys it,
\* which calls file_->Unref().  mutex_ is not taken.
BeginDestroy(t, vw) ==
    /\ pc[t] = "idle"
    /\ vw \in BagToSet(views)
    /\ views' = views (-) SetToBag({vw})
    /\ local' = [local EXCEPT ![t] =
                    [NoLocal EXCEPT !.op = "DestroyView", !.file = vw.file]]
    /\ pc' = [pc EXCEPT ![t] = "unref_lock"]
    /\ UNCHANGED <<file_map, files, ub, mutex_, refs_mutex_, allocated, serial>>

\* The thread goes on at label with locals l, the map becoming map.
Go(t, label, l, map) ==
    /\ pc' = [pc EXCEPT ![t] = label]
    /\ local' = [local EXCEPT ![t] = l]
    /\ file_map' = map

\* The class a New...File call instantiates (memenv.cc:282, 294, 315).
KindOf(op) ==
    CASE op = "NewSequentialFile" -> "SequentialFile"
      [] op = "NewRandomAccessFile" -> "RandomAccessFile"
      [] OTHER -> "WritableFile"

\* Holding mutex_, a call runs from its first statement to its first Ref() or
\* Unref(), or to its return when it makes none (memenv.cc:274-415).
Body(t) ==
    /\ pc[t] = "body"
    /\ LET l     == local[t]
           found == l.fname \in DOMAIN file_map
       IN  CASE l.op \in {"NewSequentialFile", "NewRandomAccessFile"} ->
                    /\ IF found
                       THEN Go(t, "ref_lock",
                               [l EXCEPT !.file = file_map[l.fname], !.stage = 1],
                               file_map)
                       ELSE Go(t, "unlock", [l EXCEPT !.ret = NotFoundRet], file_map)
                    /\ UNCHANGED ub
             [] l.op = "NewWritableFile" ->
                    /\ IF found
                       THEN Go(t, "unref_lock", [l EXCEPT !.file = file_map[l.fname]],
                               file_map)
                       ELSE Go(t, "resume", l, file_map)
                    /\ UNCHANGED ub
             [] l.op = "FileExists" ->
                    /\ Go(t, "unlock",
                          [l EXCEPT !.ret = OkRet(FileExistsOp(file_map, l.fname))],
                          file_map)
                    /\ UNCHANGED ub
             [] l.op = "GetChildren" ->
                    /\ Go(t, "unlock",
                          [l EXCEPT !.ret = OkRet(GetChildrenOp(file_map, l.fname))],
                          file_map)
                    /\ UNCHANGED ub
             [] l.op = "GetFileSize" ->
                    IF ~found
                    THEN /\ Go(t, "unlock", [l EXCEPT !.ret = NotFoundRet], file_map)
                         /\ UNCHANGED ub
                    ELSE IF Dangling(file_map[l.fname])
                    THEN /\ Go(t, "unlock", [l EXCEPT !.ret = OkRet(0)], file_map)
                         /\ ub' = TRUE
                    ELSE /\ Go(t, "unlock",
                               [l EXCEPT !.ret = OkRet(Size(files[file_map[l.fname]]))],
                               file_map)
                         /\ UNCHANGED ub
             [] l.op = "DeleteFile" ->
                    /\ IF found
                       THEN Go(t, "unref_lock", [l EXCEPT !.file = file_map[l.fname]],
                               file_map)
                       ELSE Go(t, "unlock", [l EXCEPT !.ret = NotFoundRet], file_map)
                    /\ UNCHANGED ub
             [] l.op = "DeleteRecursively" ->
                    /\ Go(t, "unlock", [l EXCEPT !.ret = OkRet(NullPtr)],
                          DeleteRecursivelyMap(Env, l.fname).map)
                    /\ UNCHANGED ub
             [] l.op = "RenameFile" ->
                    /\ IF ~found
                       THEN Go(t, "unlock", [l EXCEPT !.ret = NotFoundRet], file_map)
                       ELSE IF l.target \in DOMAIN file_map
                       THEN Go(t, "unref_lock", [l EXCEPT !.file = file_map[l.target]],
                               file_map)
                       ELSE Go(t, "resume", l, file_map)
                    /\ UNCHANGED ub
    /\ UNCHANGED <<files, views, mutex_, refs_mutex_, allocated, serial>>

\* Back from Ref() or Unref(), a call runs to its next Ref() or to its return;
\* a view's destructor is over.
Resume(t) ==
    /\ pc[t] = "resume"
    /\ LET l == local[t]
       IN  CASE l.op = "DestroyView" ->
                    /\ Go(t, "idle", NoLocal, file_map)
                    /\ UNCHANGED <<files, allocated>>
             [] l.op \in {"NewSequentialFile", "NewRandomAccessFile"} ->
                    \* the constructor is done (memenv.cc:282-283, 294-295)
                    /\ Go(t, "unlock",
                          [l EXCEPT !.view = NewView(KindOf(l.op), l.file),
                                    !.ret = OkRet(l.file)],
                          file_map)
                    /\ UNCHANGED <<files, allocated>>
             [] l.op = "NewWritableFile" /\ l.stage = 0 ->
                    \* file_map_.erase(fname) of DeleteFileInternal, then
                    \* new FileState() and file->Ref() (memenv.cc:347, 311-312)
                    /\ Go(t, "ref_lock",
                          [l EXCEPT !.file = allocated + 1, !.stage = 1],
                          Erase(file_map, l.fname))
                    /\ files' = [files EXCEPT ![allocated + 1] = NewFileState]
                    /\ allocated' = allocated + 1
             [] l.op = "NewWritableFile" /\ l.stage = 1 ->
                    \* file_map_[fname] = file, then new WritableFileImpl(file)
                    \* (memenv.cc:313-315)
                    /\ Go(t, "ref_lock", [l EXCEPT !.stage = 2],
                          Insert(file_map, l.fname, l.file))
                    /\ UNCHANGED <<files, allocated>>
             [] l.op = "NewWritableFile" /\ l.stage = 2 ->
                    /\ Go(t, "unlock",
                          [l EXCEPT !.view = NewView(KindOf(l.op), l.file),
                                    !.ret = OkRet(l.file)],
                          file_map)
                    /\ UNCHANGED <<files, allocated>>
             [] l.op = "DeleteFile" ->
                    \* file_map_.erase(fname) (memenv.cc:347)
                    /\ Go(t, "unlock", [l EXCEPT !.ret = OkRet(NullPtr)],
                          Erase(file_map, l.fname))
                    /\ UNCHANGED <<files, allocated>>
             [] l.op = "RenameFile" ->
                    \* file_map_.erase(target) of DeleteFileInternal, then the
                    \* assignment and erase(src) (memenv.cc:347, 412-413)
                    /\ Go(t, "unlock", [l EXCEPT !.ret = OkRet(NullPtr)],
                          RenameEntries(Erase(file_map, l.target), l.fname, l.target))
                    /\ UNCHANGED <<files, allocated>>
    /\ UNCHANGED <<views, ub, mutex_, refs_mutex_, serial>>

\* The views open or being built, and the FileStates made or to be made.
ConcViews ==
    BagCardinality(views)
    + Cardinality({t \in Threads : local[t].op \in
                      {"NewSequentialFile", "NewRandomAccessFile", "NewWritableFile"}})

NextConc ==
    \E t \in Threads :
        \/ /\ \E fname \in Paths :
                 /\ ConcViews < MaxConcViews
                 /\ allocated + Cardinality(PendingNew) < MaxConcFiles
                 /\ Call(t, "NewWritableFile", fname, <<>>)
           /\ ConcFrame
        \/ /\ \E fname \in Paths, op \in {"NewSequentialFile", "NewRandomAccessFile"} :
                 /\ ConcViews < MaxConcViews
                 /\ Call(t, op, fname, <<>>)
           /\ ConcFrame
        \/ /\ \E fname \in Paths, op \in {"FileExists", "GetFileSize", "DeleteFile"} :
                 Call(t, op, fname, <<>>)
           /\ ConcFrame
        \/ /\ \E dir \in Dirs, op \in {"GetChildren", "DeleteRecursively"} :
                 Call(t, op, dir, <<>>)
           /\ ConcFrame
        \/ /\ \E src \in Paths, target \in Paths : Call(t, "RenameFile", src, target)
           /\ ConcFrame
        \/ /\ \E vw \in BagToSet(views) : BeginDestroy(t, vw)
           /\ ConcFrame
        \/ /\ Lock(t)
           /\ ConcFrame
        \/ /\ Body(t)
           /\ ConcFrame
        \/ /\ RefLock(t)
           /\ ConcFrame
        \/ /\ RefInc(t)
           /\ ConcFrame
        \/ /\ UnrefLock(t)
           /\ ConcFrame
        \/ /\ UnrefDec(t)
           /\ ConcFrame
        \/ /\ UnrefDelete(t)
           /\ ConcFrame
        \/ /\ Resume(t)
           /\ ConcFrame
        \/ /\ Unlock(t)
           /\ ConcFrame

\* ------------------------------- SpecLock: threads in the calls of the views
\*
\* A thread that calls Read, Append or PreAllocate on a view is at "content"
\* while FileState::Read, Append or PreAllocate runs.  blocks_ and size_ are
\* guarded by no mutex and "concurrent access is not allowed to writable
\* files" (memenv.cc:159-161), so the callers keep a write to a file apart
\* from every other call on that file.

\* The calls a view of each class offers (memenv.cc:178, 237, 241).
ContentOps(kind) ==
    IF kind = "WritableFile" THEN {"Append", "PreAllocate"} ELSE {"Read"}

\* The threads inside a call on a view.
InContent == {t \in Threads : pc[t] = "content"}

\* A thread calls op on its view vw (memenv.cc:178-184, 237-243).
BeginContent(t, vw, op) ==
    /\ pc[t] = "idle"
    /\ BagIn(vw, views)
    /\ vw.kind \in {"SequentialFile", "WritableFile"}
    /\ op \in ContentOps(vw.kind)
    /\ \A u \in InContent :
          (local[u].file = vw.file) => (op = "Read" /\ local[u].op = "Read")
    /\ ~Dangling(vw.file) =>
          /\ (op = "Append") => Size(files[vw.file]) < MaxEnvSize
          /\ (op = "PreAllocate") => Len(files[vw.file].blocks) < MaxLockBlocks
    /\ views' = views (-) SetToBag({vw})
    /\ local' = [local EXCEPT ![t] =
                    [NoLocal EXCEPT !.op = op, !.file = vw.file, !.view = vw]]
    /\ pc' = [pc EXCEPT ![t] = "content"]
    /\ UNCHANGED <<file_map, files, ub, crashed, mutex_, refs_mutex_, allocated, serial>>

\* FileState::Read, Append or PreAllocate runs and the call returns
\* (memenv.cc:61-141).  PreAllocate's delete [] of the clobbered pointer
\* either returns or aborts the process, every thread with it.
EndContent(t, data) ==
    /\ pc[t] = "content"
    /\ LET l == local[t]
           f == l.file
           back(vw) == /\ views' = views (+) SetToBag({vw})
                       /\ local' = [local EXCEPT ![t] = NoLocal]
                       /\ pc' = [pc EXCEPT ![t] = "idle"]
       IN  IF Dangling(f)
           THEN /\ ub' = TRUE
                /\ back(l.view)
                /\ UNCHANGED <<files, crashed>>
           ELSE CASE l.op = "Read" ->
                       /\ back([l.view EXCEPT !.pos =
                                  SequentialFileImpl_ReadOp(files[f], @, Len(data)).pos])
                       /\ UNCHANGED <<files, ub, crashed>>
                  [] l.op = "Append" ->
                       /\ files' = [files EXCEPT ![f] = FileState_Append(@, data)]
                       /\ back(l.view)
                       /\ UNCHANGED <<ub, crashed>>
                  [] l.op = "PreAllocate" ->
                       \/ /\ files' = [files EXCEPT ![f] = PreAllocate(@, Len(data))]
                          /\ back(l.view)
                          /\ UNCHANGED <<ub, crashed>>
                       \/ /\ crashed' = TRUE
                          /\ pc' = [u \in Threads |-> "aborted"]
                          /\ UNCHANGED <<files, views, local, ub>>
    /\ UNCHANGED <<file_map, mutex_, refs_mutex_, allocated, serial>>

\* What a step of a call on a view leaves alone.
LockFrame == UNCHANGED <<fs, pos, res, written, preallocated, last, leaked>>

\* The views open, being built, or in a call.
LockViews == ConcViews + Cardinality(InContent)

NextLock ==
    \E t \in Threads :
        \/ /\ \E fname \in LockPaths :
                 /\ LockViews < MaxLockViews
                 /\ allocated + Cardinality(PendingNew) < MaxLockFiles
                 /\ Call(t, "NewWritableFile", fname, <<>>)
           /\ ConcFrame
        \/ /\ \E fname \in LockPaths :
                 /\ LockViews < MaxLockViews
                 /\ Call(t, "NewSequentialFile", fname, <<>>)
           /\ ConcFrame
        \/ /\ \E fname \in LockPaths, op \in {"GetFileSize", "DeleteFile"} :
                 Call(t, op, fname, <<>>)
           /\ ConcFrame
        \/ /\ \E dir \in LockDirs : Call(t, "DeleteRecursively", dir, <<>>)
           /\ ConcFrame
        \/ /\ \E src \in LockPaths, target \in LockPaths :
                 Call(t, "RenameFile", src, target)
           /\ ConcFrame
        \/ /\ \E vw \in BagToSet(views) : BeginDestroy(t, vw)
           /\ ConcFrame
        \/ /\ \E vw \in BagToSet(views), op \in {"Read", "Append", "PreAllocate"} :
                 BeginContent(t, vw, op)
           /\ LockFrame
        \/ /\ \E data \in [1..1 -> Byte] : EndContent(t, data)
           /\ LockFrame
        \/ /\ Lock(t)
           /\ ConcFrame
        \/ /\ Body(t)
           /\ ConcFrame
        \/ /\ RefLock(t)
           /\ ConcFrame
        \/ /\ RefInc(t)
           /\ ConcFrame
        \/ /\ UnrefLock(t)
           /\ ConcFrame
        \/ /\ UnrefDec(t)
           /\ ConcFrame
        \/ /\ UnrefDelete(t)
           /\ ConcFrame
        \/ /\ Resume(t)
           /\ ConcFrame
        \/ /\ Unlock(t)
           /\ ConcFrame

\* ----------------------------------------------------------- specifications

\* One empty FileState, an empty namespace, every thread idle.
Init == InitFile /\ InitEnv /\ InitConc

\* A writable and a random-access view on one file.
SpecFile == Init /\ [][NextFile]_vars

\* The writable view of one file.
SpecWrite == Init /\ [][NextWrite]_vars

\* A writable and a sequential view on one file.
SpecSeq == Init /\ [][NextSeq]_vars

\* The namespace, every call of InMemoryEnv and of a view one atomic step.
Spec == Init /\ [][NextEnv]_vars

\* The namespace over more names.
SpecNs == Init /\ [][NextNs]_vars

\* The namespace under listing.
SpecLs == Init /\ [][NextLs]_vars

\* Threads inside the calls of InMemoryEnv and the views' destructors.
SpecConc == Init /\ [][NextConc]_vars

\* A thread that can take a step inside a call takes one; a thread waiting
\* for a mutex that is released again and again gets it.
LockFairness ==
    \A t \in Threads :
        /\ WF_vars((Body(t) \/ RefInc(t) \/ UnrefDec(t) \/ UnrefDelete(t)
                    \/ Resume(t) \/ Unlock(t)) /\ ConcFrame)
        /\ WF_vars((\E data \in [1..1 -> Byte] : EndContent(t, data)) /\ LockFrame)
        /\ SF_vars(Lock(t) /\ ConcFrame)
        /\ SF_vars(RefLock(t) /\ ConcFrame)
        /\ SF_vars(UnrefLock(t) /\ ConcFrame)

\* Threads inside the calls of InMemoryEnv and of the views, fairly scheduled.
SpecLock == Init /\ [][NextLock]_vars /\ LockFairness

\* ------------------------------------------------------------------ claims

\* The blocks (0-based) that hold the first and the last byte of a result.
FirstBlock(r) == r.offset \div kBlockSize
LastBlock(r) == (r.offset + Len(r.data) - 1) \div kBlockSize

\* C1: on a file built by appends only, read(offset, n) with offset <= size
\* returns OK and exactly min(n, size - offset) bytes, which are the bytes
\* appended at positions [offset, offset + min(n, size - offset)), inside one
\* block or across block boundaries.
C1_ReadReturnsAppended ==
    (res.op = "read" /\ ~preallocated /\ res.offset <= fs.size) =>
        /\ res.status = "OK"
        /\ Len(res.data) = Min(res.n, fs.size - res.offset)
        /\ res.data = SubSeq(written, res.offset + 1,
                             res.offset + Min(res.n, fs.size - res.offset))

\* C1 witness: a read on an append-only file whose result starts inside one
\* block, covers a whole block and ends in a third.
C1_Witness ==
    /\ res.op = "read" /\ ~preallocated /\ res.status = "OK"
    /\ Len(res.data) > 0
    /\ res.offset % kBlockSize # 0
    /\ LastBlock(res) >= FirstBlock(res) + 2

\* C7: preallocate(n) changes neither size() nor the result of any read, and
\* bytes appended afterwards (or at any time) are read back at the offset at
\* which they were appended: append data at size s, then read(s, |data|)
\* returns data.
C7_PreallocateInvisible ==
    [][ /\ (res'.op = "preallocate") =>
              /\ fs'.size = fs.size
              /\ \A o \in 0..(fs.size + 1), n \in 0..MaxRead :
                     Read(fs', o, n) = Read(fs, o, n)
        /\ (res'.op = "append") =>
              LET r == Read(fs', res'.offset, res'.n)
              IN  /\ r.status = "OK"
                  /\ \A d \in Observable(r.data) : d = res'.data
      ]_vars

\* C8: read(offset, n) on a file of size s is OK with an empty result when
\* offset = s (also when s is 0 or a multiple of the block size) and is an
\* error with no result when offset > s; a sequential read that fails leaves
\* the cursor where it was (for every cursor, including cursors past the end,
\* which no view of a file that only grows ever holds).
C8_ReadAtAndPastEnd ==
    /\ (res.op = "read" /\ res.offset = fs.size) =>
            res.status = "OK" /\ res.data = <<>>
    /\ (res.op = "read" /\ res.offset > fs.size) =>
            res.status # "OK" /\ res.data = <<>>
    /\ \A p \in 0..(fs.size + 1), n \in 0..MaxRead :
            LET r == SequentialFileImpl_ReadOp(fs, p, n)
            IN  /\ (p > fs.size) => r.status # "OK"
                /\ (r.status # "OK") => r.pos = p

\* C8 witness: a read of n > 0 bytes at offset = size on a non-empty file
\* whose size is a multiple of the block size (no block holds that offset).
C8_Witness ==
    /\ res.op = "read" /\ res.n > 0
    /\ fs.size > 0 /\ fs.size % kBlockSize = 0
    /\ res.offset = fs.size
    /\ Len(fs.blocks) * kBlockSize = fs.size

\* ---- the namespace

Range(m) == {m[k] : k \in DOMAIN m}
SeqRange(q) == {q[i] : i \in 1..Len(q)}

\* The open views bound to FileState f.
ViewsOn(vs, f) == {vw \in BagToSet(vs) : vw.file = f}

\* Two FileStates answer every read alike.
SameReads(f1, f2) ==
    \A o \in 0..(MaxEnvSize + 1), n \in 0..(MaxEnvSize + 1) :
        Read(f1, o, n) = Read(f2, o, n)

\* The directory part and the last component of a path.
LastSlash(p) == CHOOSE i \in 1..Len(p) : p[i] = "/" /\ \A j \in (i + 1)..Len(p) : p[j] # "/"
Parent(p) == SubSeq(p, 1, LastSlash(p) - 1)
BaseName(p) == SubSeq(p, LastSlash(p) + 1, Len(p))

\* d is an initial segment of k.
HasPrefix(k, d) == \E i \in 0..Len(k) : SubSeq(k, 1, i) = d

\* d with a '/' added unless it ends in one.
Slashed(d) == IF d[Len(d)] = "/" THEN d ELSE d \o <<"/">>

\* C2: after DeleteFile(path) succeeds while a view of the file is open, the
\* path no longer exists, GetChildren of its parent does not list its name,
\* the FileState is alive and answers every read as before; and an unlinked
\* FileState held by views (its entry removed with its reference released)
\* stays alive exactly until the last of those views is destroyed.
C2_DeleteKeepsOpenContent ==
    [][ /\ (last'.op = "DeleteFile" /\ last'.status = "OK") =>
              LET p == last'.fname
                  f == file_map[p]
              IN  (ViewsOn(views, f) # {}) =>
                      /\ ~FileExistsOp(file_map', p)
                      /\ BaseName(p) \notin SeqRange(GetChildrenOp(file_map', Parent(p)))
                      /\ files'[f].live
                      /\ views' = views
                      /\ SameReads(files'[f], files[f])
        /\ \A f \in FileIds :
              (/\ files[f].live /\ f \notin Range(file_map) /\ f \notin leaked
               /\ ViewsOn(views, f) # {}) =>
                  (files'[f].live <=> ViewsOn(views', f) # {})
      ]_vars

\* C2 witness: DeleteFile has just succeeded on a non-empty file that a
\* sequential or random-access view still holds.
C2_Witness ==
    /\ last.op = "DeleteFile" /\ last.status = "OK"
    /\ last.fname \notin DOMAIN file_map
    /\ files[last.file].live /\ files[last.file].size > 0
    /\ \E vw \in ViewsOn(views, last.file) : vw.kind # "WritableFile"

\* C4: DeleteRecursively releases the namespace's reference of every entry it
\* removes: a removed file with no open view is destroyed when it returns, and
\* an unlinked file is destroyed when its last view is destroyed.
C4_DeleteRecursivelyReleases ==
    [][ /\ (last'.op = "DeleteRecursively") =>
              \A p \in DOMAIN file_map \ DOMAIN file_map' :
                  (ViewsOn(views, file_map[p]) = {}) => ~files'[file_map[p]].live
        /\ \A f \in FileIds :
              (/\ files[f].live /\ f \notin Range(file_map)
               /\ ViewsOn(views, f) # {} /\ ViewsOn(views', f) = {}) =>
                  ~files'[f].live
      ]_vars

\* C5: RenameFile(src, dst) with src # dst, both present: afterwards src is
\* absent, dst is present and has the size and the bytes src had, and dst's
\* old FileState has lost the namespace's reference: destroyed at once when
\* no view holds it, otherwise alive with one reference less, unchanged, and
\* reachable only through the views opened before.
C5_RenameOntoExisting ==
    [][ (/\ last'.op = "RenameFile" /\ last'.status = "OK"
         /\ last'.src # last'.target /\ last'.target \in DOMAIN file_map) =>
            LET src  == last'.src
                dst  == last'.target
                fsrc == file_map[src]
                fdst == file_map[dst]
            IN  /\ ~FileExistsOp(file_map', src)
                /\ FileExistsOp(file_map', dst)
                /\ files'[file_map'[dst]].live
                /\ Size(files'[file_map'[dst]]) = Size(files[fsrc])
                /\ SameReads(files'[file_map'[dst]], files[fsrc])
                /\ fdst \notin Range(file_map')
                /\ views' = views
                /\ IF ViewsOn(views, fdst) = {}
                   THEN ~files'[fdst].live
                   ELSE /\ files'[fdst].live
                        /\ files'[fdst].refs = files[fdst].refs - 1
                        /\ SameReads(files'[fdst], files[fdst])
      ]_vars

\* C5 witness: a rename has just replaced a non-empty dst that a view still
\* holds with a src of different content.
C5_Witness ==
    /\ last.op = "RenameFile" /\ last.status = "OK"
    /\ last.src # last.target
    /\ last.replaced # NullPtr
    /\ files[last.replaced].live /\ files[last.replaced].size > 0
    /\ last.target \in DOMAIN file_map
    /\ files[file_map[last.target]].size > 0
    /\ ~SameReads(files[file_map[last.target]], files[last.replaced])

\* C9: DeleteRecursively(dir) removes exactly the stored paths that start with
\* dir made to end in '/', and leaves every other path mapped to the same,
\* untouched FileState; with all of /a, /a/b, /a/c/d, /ab, /b stored, "/a" and
\* "/a/" both leave exactly /ab, /b and /a.
C9_DeleteRecursivelyPrefix ==
    [][ (last'.op = "DeleteRecursively") =>
            /\ DOMAIN file_map' =
                   {k \in DOMAIN file_map : ~HasPrefix(k, Slashed(last'.dirname))}
            /\ \A k \in DOMAIN file_map' : file_map'[k] = file_map[k]
            /\ files' = files
            /\ (DOMAIN file_map = {P_a, P_a_b, P_a_c_d, P_ab, P_b}) =>
                   DOMAIN file_map' = {P_ab, P_b, P_a}
      ]_vars

\* C9 witness: DeleteRecursively("/a") has just removed /a/b and /a/c/d and
\* left /ab, /b and /a.
C9_Witness ==
    /\ last.op = "DeleteRecursively" /\ last.dirname = P_a
    /\ last.removed = {P_a_b, P_a_c_d}
    /\ DOMAIN file_map = {P_ab, P_b, P_a}

\* C10: NewWritableFile on a stored path maps it to a fresh empty FileState
\* (size 0, reads nothing, held by the map and the new view); the old
\* FileState loses exactly the namespace's reference: destroyed at once when no
\* view holds it, otherwise alive and unchanged; and an append through a view
\* changes no FileState but that view's own.
C10_OverwriteCreatesFresh ==
    [][ /\ (last'.op = "NewWritableFile" /\ last'.fname \in DOMAIN file_map) =>
              LET p    == last'.fname
                  old  == file_map[p]
                  new  == file_map'[p]
              IN  /\ files'[new].live
                  /\ Size(files'[new]) = 0
                  /\ \A n \in 0..(MaxEnvSize + 1) :
                         Read(files'[new], 0, n) = [status |-> "OK", data |-> <<>>]
                  /\ files'[new].refs = 2
                  /\ ViewsOn(views', new) = {last'.view}
                  /\ IF ViewsOn(views, old) = {}
                     THEN new = old \/ ~files'[old].live
                     ELSE /\ new # old
                          /\ files'[old].live
                          /\ files'[old].refs = files[old].refs - 1
                          /\ SameReads(files'[old], files[old])
        /\ (last'.op = "Append") =>
              \A f \in FileIds \ {last'.view.file} : files'[f] = files[f]
      ]_vars

\* C10 witness: NewWritableFile has just replaced a non-empty file that a
\* sequential or random-access view still holds.
C10_Witness ==
    /\ last.op = "NewWritableFile" /\ last.replaced # NullPtr
    /\ last.replaced # file_map[last.fname]
    /\ files[last.replaced].live /\ files[last.replaced].size > 0
    /\ \E vw \in ViewsOn(views, last.replaced) : vw.kind # "WritableFile"

\* ---- threads

\* The FileState pointers held by views: those the callers hold, those a
\* call has built and is about to return.
ViewPointers ==
    {vw.file : vw \in BagToSet(views)}
    \cup {local[t].view.file : t \in {u \in Threads : local[u].view # NoView}}

C6_SerialEquivalent ==
    /\ (mutex_ = NoThread) => file_map = serial
    /\ \A t \in Threads : (pc[t] = "unlock") => local[t].ret = local[t].expect

\* C6 witness: a NewWritableFile is returning to one thread while another
\* thread waits for mutex_ with a call on the path just created, on a
\* map that already held an entry made by an earlier call.
C6_Witness ==
    \E t1 \in Threads, t2 \in Threads :
        /\ t1 # t2
        /\ pc[t1] = "unlock" /\ local[t1].op = "NewWritableFile"
        /\ pc[t2] = "lock"
        /\ local[t2].op \in {"DeleteFile", "RenameFile", "NewWritableFile"}
        /\ local[t2].fname = local[t1].fname
        /\ Cardinality(DOMAIN file_map) = 2

\* ---- sizes and blocks

\* C11: after any sequence of Append, AppendVector and PreAllocate calls on a
\* file, Size() (which GetFileSize returns for the path mapped to the file) is
\* the number of bytes appended; PreAllocate adds nothing to it.
C11_SizeIsSumOfAppends == ~crashed => Size(fs) = Len(written)

\* C11 witness: an AppendVector of two non-empty Slices has just run on a
\* file that holds bytes and has been preallocated past its last byte.
C11_Witness ==
    /\ ~crashed /\ preallocated
    /\ res.op = "appendv" /\ res.n > MaxLen /\ res.offset > 0
    /\ Len(fs.blocks) * kBlockSize >= Size(fs) + kBlockSize

\* C16: after any sequence of Append, AppendVector and PreAllocate calls,
\* size_ <= blocks_.size() * kBlockSize and, when there is a block,
\* size_ > (blocks_.size() - 1) * kBlockSize: the last block is the block
\* that holds offset size_.
C16_LastBlockHoldsSize ==
    ~crashed =>
        /\ Size(fs) <= Len(fs.blocks) * kBlockSize
        /\ (fs.blocks # <<>>) => Size(fs) > (Len(fs.blocks) - 1) * kBlockSize

\* ---- the sequential cursor

\* C17: on a file that only grows, pos_ never decreases and never exceeds
\* size_; a sequential read succeeds, returns the min(n, size_ - pos_) bytes
\* at pos_ (the appended bytes of that range on a file never preallocated) and
\* advances pos_ by their number; Skip succeeds and advances pos_ by
\* min(n, size_ - pos_); no other call moves pos_.  As pos_ starts at 0 it is
\* the number of bytes read plus the number skipped.
C17_SequentialCursor ==
    [][ ~crashed' =>
          /\ Size(fs') >= Size(fs)
          /\ pos' >= pos
          /\ pos' <= Size(fs')
          /\ (res'.op = "seqread") =>
                 /\ res'.status = "OK"
                 /\ res'.offset = pos
                 /\ Len(res'.data) = Min(res'.n, Size(fs) - pos)
                 /\ res'.data \in Observable(Read(fs, pos, res'.n).data)
                 /\ ~preallocated => res'.data = SubSeq(written, pos + 1, pos')
                 /\ pos' = pos + Len(res'.data)
          /\ (res'.op = "skip") =>
                 /\ res'.status = "OK"
                 /\ res'.offset = pos
                 /\ pos' = pos + Min(res'.n, Size(fs) - pos)
          /\ (res'.op \notin {"seqread", "skip"}) => pos' = pos
      ]_vars

\* C17 witness: a Skip asked for more than was left, from a cursor that
\* earlier calls had already moved, and stopped at size_.
C17_Witness ==
    /\ ~crashed
    /\ res.op = "skip" /\ res.status = "OK"
    /\ res.offset > 0 /\ res.offset < Size(fs)
    /\ res.offset + res.n > Size(fs)
    /\ pos = Size(fs)

\* ---- listing

\* The stored paths that have dir + '/' as a strict prefix.
StrictlyUnder(map, dir) ==
    {k \in DOMAIN map : HasPrefix(k, dir \o <<"/">>) /\ k # dir \o <<"/">>}

\* C12: GetChildren(dir) returns one name per stored path that has dir + '/'
\* as a strict prefix and none for any other path, each name the rest of its
\* path after dir + '/', in the lexicographic order of the paths whatever the
\* order of creation; on {/a/x, /a/y, /b/z}, GetChildren("/a") returns x, y.
C12_ChildrenOfStrictPrefix ==
    (last.op = "GetChildren") =>
        LET r == last.result
            d == last.dir \o <<"/">>
        IN  /\ {d \o r[i] : i \in 1..Len(r)} = StrictlyUnder(file_map, last.dir)
            /\ Len(r) = Cardinality(StrictlyUnder(file_map, last.dir))
            /\ \A i \in 1..Len(r), j \in 1..Len(r) :
                   (i < j) => LexLess(d \o r[i], d \o r[j])
            /\ (DOMAIN file_map = {P_a_x, P_a_y, P_b_z} /\ last.dir = P_a) =>
                   r = << <<"x">>, <<"y">> >>

\* C18: every name GetChildren(dir) returns is non-empty and holds no '/'.
C18_ChildrenAreImmediate ==
    (last.op = "GetChildren") =>
        \A i \in 1..Len(last.result) :
            last.result[i] # <<>> /\ "/" \notin SeqRange(last.result[i])

\* ---- errors and frames

\* C13: NewSequentialFile, NewRandomAccessFile, DeleteFile, GetFileSize and
\* RenameFile (for src) on a path absent from the map return a Status of kind
\* NotFound.
C13_AbsentPathIsNotFound ==
    (/\ last.op \in {"NewSequentialFile", "NewRandomAccessFile", "DeleteFile",
                     "GetFileSize", "RenameFile"}
     /\ last.status # "OK") =>
        last.status = "NotFound"

\* C14: RenameFile(src, dst) on a stored src, whatever dst (absent, stored, or
\* src itself), returns OK and leaves src's FileState alive, its reference
\* count and content as they were, and mapped under dst.
C14_RenameKeepsFileState ==
    [][ (last'.op = "RenameFile" /\ last'.src \in DOMAIN file_map) =>
            LET f == file_map[last'.src]
            IN  /\ last'.status = "OK"
                /\ files'[f] = files[f]
                /\ last'.target \in DOMAIN file_map'
                /\ file_map'[last'.target] = f
      ]_vars

\* The views of a bag that are bound to FileState f, with their multiplicity.
NumViewsOn(vs, f) == BagCardinality([vw \in ViewsOn(vs, f) |-> vs[vw]])

\* The paths mapped to FileState f.
PathsTo(map, f) == {k \in DOMAIN map : map[k] = f}

\* C15: in every reachable state every live FileState has at most one path
\* mapped to it and a reference count, never negative, equal to the number of
\* paths mapped to it plus the number of open views bound to it.
C15_RefsCountHolders ==
    \A f \in FileIds :
        files[f].live =>
            /\ Cardinality(PathsTo(file_map, f)) <= 1
            /\ files[f].refs >= 0
            /\ files[f].refs = Cardinality(PathsTo(file_map, f)) + NumViewsOn(views, f)

\* C19: a call that fails was given a path absent from the map, and leaves
\* the map, every FileState (reference counts included) and the views as they
\* were: NewSequentialFile, NewRandomAccessFile, GetFileSize and DeleteFile
\* insert no entry and make no view, and RenameFile with src absent leaves a
\* stored dst and its FileState alone.
C19_FailureChangesNothing ==
    [][ (/\ last'.op \in {"NewSequentialFile", "NewRandomAccessFile", "DeleteFile",
                          "GetFileSize", "RenameFile"}
         /\ last'.status # "OK") =>
            /\ (IF last'.op = "RenameFile" THEN last'.src ELSE last'.fname)
                   \notin DOMAIN file_map
            /\ file_map' = file_map
            /\ files' = files
            /\ views' = views
            /\ ub' = ub
      ]_vars

\* C19 witness: RenameFile has just failed on an absent src while its dst is
\* stored, holds bytes, and a view is open.
C19_Witness ==
    /\ last.op = "RenameFile" /\ last.status # "OK"
    /\ last.src \notin DOMAIN file_map
    /\ last.target \in DOMAIN file_map
    /\ files[file_map[last.target]].live
    /\ Size(files[file_map[last.target]]) > 0
    /\ views # EmptyBag

\* ---- locks

\* The refs_mutex_ a thread holds.
RefsHeld(t) == {f \in FileIds : refs_mutex_[f] = t}

\* A thread holds at most one refs_mutex_, and while it holds one it is
\* inside Ref() or Unref(), so it requests neither mutex_ nor another
\* refs_mutex_; a thread inside Read, Append or PreAllocate, or waiting for
\* mutex_, does not hold mutex_.
LockOrder ==
    \A t \in Threads :
        /\ Cardinality(RefsHeld(t)) <= 1
        /\ (RefsHeld(t) # {}) => pc[t] \in {"ref_inc", "unref_dec"}
        /\ (pc[t] \in {"lock", "content", "idle"}) => mutex_ # t

\* While the process lives the lock order is kept, and every call a thread
\* has started returns or the process is aborted by PreAllocate.
ReturnsUnlessAborted ==
    /\ [](~crashed => LockOrder)
    /\ \A t \in Threads : (pc[t] # "idle") ~> (pc[t] = "idle" \/ crashed)

\* C20: the lock order is kept (a refs_mutex_ is taken alone or under
\* mutex_, mutex_ is never requested while a refs_mutex_ is held, mutex_ is
\* not held during Read, Append or PreAllocate) and, fairly scheduled, every
\* call a thread has started eventually returns.
C20_LockOrderAndProgress ==
    /\ [](~crashed => LockOrder)
    /\ \A t \in Threads : (pc[t] # "idle") ~> (pc[t] = "idle")

\* C20 witness: a thread inside DeleteFile, RenameFile or NewWritableFile
\* holds mutex_ and waits in Unref() for the refs_mutex_ that another thread,
\* destroying a view without mutex_, holds.
C20_Witness ==
    \E t1 \in Threads, t2 \in Threads :
        /\ t1 # t2
        /\ mutex_ = t1 /\ pc[t1] = "unref_lock"
        /\ local[t1].file # NullPtr
        /\ refs_mutex_[local[t1].file] = t2
        /\ local[t2].op = "DestroyView" /\ pc[t2] = "unref_dec"

=============================================================================
